---- MODULE Spec2Model ----
(***************************************************************************)
(* Model of src/simple_mud.py: the SimpleMUD turn loop (Game.play), the    *)
(* command dispatcher, player movement, combat and the enemy phase.        *)
(*                                                                         *)
(* The file carries unresolved merge hunks between two revisions, "HEAD"   *)
(* and "codex" (4cqbbk-codex/build-local-mud-with-basic-dungeon-and-       *)
(* classes).  The variable rev fixes, for a whole session, which side of   *)
(* every hunk is the program; both sides are modelled.                     *)
(*                                                                         *)
(* An input line is modelled after .strip().lower() as the sequence of     *)
(* words obtained by cutting it at every single space, so "go north" is    *)
(* <<"go", "north">> and "go  north" is <<"go", "", "north">>.  End of     *)
(* input is the value EOF.                                                 *)
(***************************************************************************)
EXTENDS Integers, Sequences, FiniteSets, TLC

VARIABLES rev, pc, rooms, player, enemies, turn, running, cmd, out, target, acted,
          seen

vars == <<rev, pc, rooms, player, enemies, turn, running, cmd, out, target, acted,
          seen>>

\* Largest value of Game.turn for which a further command is read.
MaxTurn == 5

\* seen counts the lines read at the "> " prompt, up to MaxSeen; it is an
\* observer of the session and no field of the program.
MaxSeen == 4

Revisions == {"HEAD", "codex"}

DIRECTIONS == {"north", "south", "east", "west"}

RoomNames == {"Entrance", "Hall", "Armory", "Library"}

EOF == <<"<EOF>">>

Range(s) == {s[i] : i \in DOMAIN s}

\* Room.connect: self.neighbors[direction] = other
connect(rs, room, direction, other) ==
    [rs EXCEPT ![room] = [d \in (DOMAIN rs[room]) \cup {direction} |->
                            IF d = direction THEN other ELSE rs[room][d]]]

\* Variant of _build_rooms whose last connect wires the Library to the
\* Armory instead of back to the Hall.
_build_rooms_miswired ==
    LET r0 == [r \in RoomNames |-> [d \in {} |-> "Entrance"]]
        r1 == connect(r0, "Entrance", "north", "Hall")
        r2 == connect(r1, "Hall", "south", "Entrance")
        r3 == connect(r2, "Hall", "east", "Armory")
        r4 == connect(r3, "Hall", "west", "Library")
        r5 == connect(r4, "Armory", "west", "Hall")
    IN  connect(r5, "Library", "east", "Armory")

\* Game._build_rooms: four rooms, six directed edges.
NoExits == [d \in {} |-> "Entrance"]

_build_rooms ==
    LET r0 == [r \in RoomNames |-> NoExits]
        r1 == connect(r0, "Entrance", "north", "Hall")
        r2 == connect(r1, "Hall", "south", "Entrance")
        r3 == connect(r2, "Hall", "east", "Armory")
        r4 == connect(r3, "Hall", "west", "Library")
        r5 == connect(r4, "Armory", "west", "Hall")
    IN  connect(r5, "Library", "east", "Hall")

\* Variant of the stats table with a wizard of 4 hit points.
stats_frailwizard ==
    [role \in {"warrior", "wizard", "rogue"} |->
        CASE role = "warrior" -> <<15, 3>>
          [] role = "wizard"  -> <<4, 4>>
          [] role = "rogue"   -> <<12, 3>>]

\* Variant of the stats table with the warrior's attack value one too low.
stats_weakwarrior ==
    [role \in {"warrior", "wizard", "rogue"} |->
        CASE role = "warrior" -> <<15, 2>>
          [] role = "wizard"  -> <<10, 4>>
          [] role = "rogue"   -> <<12, 3>>]

\* The stats table of Game._create_player.
Roles == {"warrior", "wizard", "rogue"}

stats ==
    [role \in Roles |->
        CASE role = "warrior" -> <<15, 3>>
          [] role = "wizard"  -> <<10, 4>>
          [] role = "rogue"   -> <<12, 3>>]

Character(name, role, hp, atk, room) ==
    [name |-> name, role |-> role, hp |-> hp, atk |-> atk, room |-> room]

Enemy(name, hp, atk, room) ==
    [name |-> name, hp |-> hp, atk |-> atk, room |-> room]

\* The player before Game._create_player has returned.
NoPlayer == Character("", "", 0, 0, "Entrance")

\* Variant of _spawn_enemies with a Skeleton of attack value 3.
_spawn_enemies_strong ==
    << Enemy("Goblin", 5, 2, "Hall"), Enemy("Skeleton", 5, 3, "Armory") >>

\* Game._spawn_enemies
_spawn_enemies ==
    << Enemy("Goblin", 5, 2, "Hall"), Enemy("Skeleton", 5, 2, "Armory") >>

\* Enemy.is_alive
is_alive(e) == e.hp > 0

\* Lines typed at the name prompt and at the class prompt.
NameLines == { <<"">>, <<"hero">> }

RoleLines == { <<"warrior">>, <<"wizard">>, <<"rogue">>, <<"bard">>, <<"">> }

\* Lines typed at the "> " prompt.
CommandLines ==
    { <<"go", d>> : d \in DIRECTIONS \cup {"up"} }
    \cup { <<"go">>, <<"go", "", "north">>, <<"attack">>, <<"look">>, <<"stats">>,
           <<"help">>, <<"quit">>, <<"exit">>, <<"dance">> }

Init ==
    /\ rev \in Revisions
    /\ pc = "name"
    /\ rooms = _build_rooms
    /\ player = NoPlayer
    /\ enemies = << >>
    /\ turn = 0
    /\ running = FALSE
    /\ cmd = << >>
    /\ out = << >>
    /\ target = 0
    /\ acted = << >>
    /\ seen = 0

\* Game._create_player, the name prompt: loop until the line is not empty.
ReadName ==
    /\ pc = "name"
    /\ \E line \in NameLines \cup {EOF} :
          /\ cmd' = line
          /\ pc' = IF line = EOF THEN "crashed"
                   ELSE IF line = <<"">> THEN "name" ELSE "role"
          /\ player' = IF line = EOF \/ line = <<"">> THEN player
                       ELSE [player EXCEPT !.name = line[1]]
    /\ UNCHANGED <<rev, rooms, enemies, turn, running, out, target, acted, seen>>

\* Game._create_player, the class prompt, then Game._spawn_enemies, the turn
\* counter of Game.__init__ and the first lines of Game.play.
ReadRole ==
    /\ pc = "role"
    /\ \E line \in RoleLines \cup {EOF} :
          /\ cmd' = line
          /\ IF line # EOF /\ Len(line) = 1 /\ line[1] \in Roles
             THEN /\ player' = Character(player.name, line[1],
                                         stats[line[1]][1], stats[line[1]][2],
                                         "Entrance")
                  /\ enemies' = _spawn_enemies
                  /\ running' = TRUE
                  /\ pc' = "await"
             ELSE /\ pc' = IF line = EOF THEN "crashed" ELSE "role"
                  /\ UNCHANGED <<player, enemies, running>>
    /\ UNCHANGED <<rev, rooms, turn, out, target, acted, seen>>

\* Variant of _living_enemies_in_room that forgets the is_alive() filter.
_living_enemies_in_room_any(es, room) ==
    SelectSeq([i \in 1..Len(es) |-> i], LAMBDA i : es[i].room = room)

\* Game._living_enemies_in_room, as the list of indices into Game.enemies.
_living_enemies_in_room(es, room) ==
    SelectSeq([i \in 1..Len(es) |-> i],
              LAMBDA i : es[i].room = room /\ is_alive(es[i]))

\* The outcome of one command: the fields a command can touch, the messages it
\* prints and the index of the enemy it hit (0 for none).
Outcome(p, es, msgs, tgt, run) ==
    [player |-> p, enemies |-> es, out |-> msgs, target |-> tgt, running |-> run]

\* Variant of _move_player that confirms the move without assigning the room.
_move_player_noassign(rs, p, es, direction) ==
    IF Len(direction) = 1 /\ direction[1] \in DOMAIN rs[p.room]
    THEN Outcome(p, es, <<"You move">>, 0, TRUE)
    ELSE Outcome(p, es, <<"You can't go that way.">>, 0, TRUE)

\* Variant of _move_player that tests the direction against DIRECTIONS and
\* falls back to the current room when the room has no such exit.
_move_player_anydir(rs, p, es, direction) ==
    IF Len(direction) = 1 /\ direction[1] \in DIRECTIONS
    THEN Outcome([p EXCEPT !.room = IF direction[1] \in DOMAIN rs[p.room]
                                    THEN rs[p.room][direction[1]] ELSE p.room],
                 es, <<"You move">>, 0, TRUE)
    ELSE Outcome(p, es, <<"You can't go that way.">>, 0, TRUE)

\* Game._move_player; direction is the text after the first space, as words.
_move_player(rs, p, es, direction) ==
    IF Len(direction) = 1 /\ direction[1] \in DOMAIN rs[p.room]
    THEN Outcome([p EXCEPT !.room = rs[p.room][direction[1]]], es,
                 <<"You move">>, 0, TRUE)
    ELSE Outcome(p, es, <<"You can't go that way.">>, 0, TRUE)

\* Variant of _attack that takes the last living enemy instead of the first.
_attack_last(p, es) ==
    LET living == _living_enemies_in_room(es, p.room)
    IN  IF living # << >>
        THEN LET t  == living[Len(living)]
                 hp == es[t].hp - p.atk
             IN  Outcome(p, [es EXCEPT ![t].hp = hp],
                         IF hp <= 0 THEN <<"You hit", "is defeated!">>
                                    ELSE <<"You hit">>,
                         t, TRUE)
        ELSE Outcome(p, es, <<"No enemy to attack.">>, 0, TRUE)

\* Game._attack
_attack(p, es) ==
    LET living == _living_enemies_in_room(es, p.room)
    IN  IF living # << >>
        THEN LET t  == living[1]
                 hp == es[t].hp - p.atk
             IN  Outcome(p, [es EXCEPT ![t].hp = hp],
                         IF hp <= 0 THEN <<"You hit", "is defeated!">>
                                    ELSE <<"You hit">>,
                         t, TRUE)
        ELSE Outcome(p, es, <<"No enemy to attack.">>, 0, TRUE)

\* The commands the dispatcher of each revision knows besides "go ".
QuitWords(r) == IF r = "codex" THEN {"quit", "exit"} ELSE {"quit"}

HasStats(r) == r = "codex"

\* Variant of _process_command whose final branch falls off the end without
\* "return True", so that an unknown command yields a false result.
_process_command_noreturn(r, rs, p, es, c) ==
    IF Len(c) > 1 /\ c[1] = "go"
    THEN _move_player(rs, p, es, Tail(c))
    ELSE IF c = <<"attack">> THEN _attack(p, es)
    ELSE IF c = <<"look">> THEN Outcome(p, es, <<"describe">>, 0, TRUE)
    ELSE IF c = <<"stats">> /\ HasStats(r) THEN Outcome(p, es, <<"stats">>, 0, TRUE)
    ELSE IF c = <<"help">> THEN Outcome(p, es, <<"Commands">>, 0, TRUE)
    ELSE IF Len(c) = 1 /\ c[1] \in QuitWords(r) THEN Outcome(p, es, << >>, 0, FALSE)
    ELSE Outcome(p, es, <<"Unknown command.">>, 0, FALSE)

\* Game._process_command; the returned running is its boolean result.
_process_command(r, rs, p, es, c) ==
    IF Len(c) > 1 /\ c[1] = "go"
    THEN _move_player(rs, p, es, Tail(c))
    ELSE IF c = <<"attack">> THEN _attack(p, es)
    ELSE IF c = <<"look">> THEN Outcome(p, es, <<"describe">>, 0, TRUE)
    ELSE IF c = <<"stats">> /\ HasStats(r) THEN Outcome(p, es, <<"stats">>, 0, TRUE)
    ELSE IF c = <<"help">> THEN Outcome(p, es, <<"Commands">>, 0, TRUE)
    ELSE IF Len(c) = 1 /\ c[1] \in QuitWords(r) THEN Outcome(p, es, << >>, 0, FALSE)
    ELSE Outcome(p, es, <<"Unknown command.">>, 0, TRUE)

\* Variant of LoopCondition that lets the loop go on at exactly 0 hit points.
LoopCondition_offbyone(run, p) == run /\ p.hp >= 0

\* The condition of the while loop of Game.play.
LoopCondition(run, p) == run /\ p.hp > 0

\* Variant of AfterLoop that tests hp < 0.
AfterLoop_strict(p, msgs) ==
    IF p.hp < 0 THEN Append(msgs, "You have been defeated...") ELSE msgs

\* The statement after the loop of Game.play: the defeat message.
AfterLoop(p, msgs) ==
    IF p.hp <= 0 THEN Append(msgs, "You have been defeated...") ELSE msgs

\* Game.play, first half of the loop body: read a line, dispatch it, and
\* break when the dispatcher returns False.  End of input raises EOFError,
\* which nothing catches.
ReadCommand ==
    /\ pc = "await"
    /\ turn < MaxTurn
    /\ \E line \in CommandLines \cup {EOF} :
          /\ cmd' = line
          /\ acted' = << >>
          /\ seen' = IF line # EOF /\ seen < MaxSeen THEN seen + 1 ELSE seen
          /\ IF line = EOF
             THEN /\ pc' = "crashed"
                  /\ out' = << >>
                  /\ target' = 0
                  /\ UNCHANGED <<player, enemies, running>>
             ELSE LET o == _process_command(rev, rooms, player, enemies, line)
                  IN  /\ player' = o.player
                      /\ enemies' = o.enemies
                      /\ target' = o.target
                      /\ running' = o.running
                      /\ pc' = IF o.running THEN "enemy" ELSE "done"
                      /\ out' = IF o.running THEN o.out
                                ELSE AfterLoop(o.player, o.out)
    /\ UNCHANGED <<rev, rooms, turn>>

\* What the random generator returns to one enemy during one phase: the coin
\* random.random() < 0.5 (codex only) and the room random.choice picks.
Rolls(r) == [coin : IF r = "codex" THEN BOOLEAN ELSE {TRUE}, pick : RoomNames]

\* Enemy.move: random.choice among the neighbours, if there are any.
move(rs, e, pick) ==
    IF DOMAIN rs[e.room] # {} THEN [e EXCEPT !.room = pick] ELSE e

\* Variant of CanPick in which random.choice draws from every room of the map.
CanPick_anyroom(rs, e, pick) == pick \in DOMAIN rs

\* random.choice(list(self.room.neighbors.values())) can return pick.
CanPick(rs, e, pick) ==
    DOMAIN rs[e.room] = {} \/ pick \in Range(rs[e.room])

\* Variant of EnemyStep without the is_alive() test.
EnemyStep_nodeadcheck(r, rs, st, i, roll) ==
    LET e == st.enemies[i]
    IN  IF e.room = st.player.room
        THEN [st EXCEPT !.player.hp = @ - e.atk,
                        !.out = Append(@, "hits you"),
                        !.acted = Append(@, <<i, "hit">>)]
        ELSE IF r = "HEAD" \/ roll.coin
        THEN [st EXCEPT !.enemies[i] = move(rs, e, roll.pick),
                        !.acted = Append(@, <<i, "move">>)]
        ELSE [st EXCEPT !.acted = Append(@, <<i, "idle">>)]

\* Variant of EnemyStep that tests is_alive() only before moving, so that a
\* dead enemy in the player's room still hits.
EnemyStep_deadhits(r, rs, st, i, roll) ==
    LET e == st.enemies[i]
    IN  IF e.room = st.player.room
        THEN [st EXCEPT !.player.hp = @ - e.atk,
                        !.out = Append(@, "hits you"),
                        !.acted = Append(@, <<i, "hit">>)]
        ELSE IF ~is_alive(e)
        THEN [st EXCEPT !.acted = Append(@, <<i, "skip">>)]
        ELSE IF r = "HEAD" \/ roll.coin
        THEN [st EXCEPT !.enemies[i] = move(rs, e, roll.pick),
                        !.acted = Append(@, <<i, "move">>)]
        ELSE [st EXCEPT !.acted = Append(@, <<i, "idle">>)]

\* Variant of EnemyStep in which an enemy that has moved into the player's
\* room hits at once.
EnemyStep_movehit(r, rs, st, i, roll) ==
    LET e == st.enemies[i]
        m == move(rs, e, roll.pick)
    IN  IF ~is_alive(e)
        THEN [st EXCEPT !.acted = Append(@, <<i, "skip">>)]
        ELSE IF e.room = st.player.room
        THEN [st EXCEPT !.player.hp = @ - e.atk,
                        !.out = Append(@, "hits you"),
                        !.acted = Append(@, <<i, "hit">>)]
        ELSE IF r = "HEAD" \/ roll.coin
        THEN [st EXCEPT !.enemies[i] = m,
                        !.player.hp = IF m.room = st.player.room THEN @ - e.atk ELSE @,
                        !.acted = Append(@, <<i, "move">>)]
        ELSE [st EXCEPT !.acted = Append(@, <<i, "idle">>)]

\* One iteration of the loop of Game._enemy_actions, for enemy i.
\* HEAD:  dead -> continue; same room -> hit; else -> e.move()
\* codex: dead -> continue; same room -> hit; elif coin -> e.move()
\* acted records, per visit, the enemy's index and the branch it took.
EnemyStep(r, rs, st, i, roll) ==
    LET e == st.enemies[i]
    IN  IF ~is_alive(e)
        THEN [st EXCEPT !.acted = Append(@, <<i, "skip">>)]
        ELSE IF e.room = st.player.room
        THEN [st EXCEPT !.player.hp = @ - e.atk,
                        !.out = Append(@, "hits you"),
                        !.acted = Append(@, <<i, "hit">>)]
        ELSE IF r = "HEAD" \/ roll.coin
        THEN [st EXCEPT !.enemies[i] = move(rs, e, roll.pick),
                        !.acted = Append(@, <<i, "move">>)]
        ELSE [st EXCEPT !.acted = Append(@, <<i, "idle">>)]

\* Game._enemy_actions: the enemies in list order, from enemy i on.
RECURSIVE _enemy_actions(_, _, _, _, _)
_enemy_actions(r, rs, st, i, rolls) ==
    IF i > Len(st.enemies) THEN st
    ELSE _enemy_actions(r, rs, EnemyStep(r, rs, st, i, rolls[i]), i + 1, rolls)

\* Variant of PhaseRuns that tests turn > 0.
PhaseRuns_early(r, t) == r = "HEAD" \/ t > 0

\* Variant of PhaseRuns that waits one turn longer.
PhaseRuns_late(r, t) == r = "HEAD" \/ t > 2

\* Whether this turn runs the enemy phase: always on HEAD, from the second
\* turn on in codex ("count turns so enemies wait on the first move").
PhaseRuns(r, t) == r = "HEAD" \/ t > 1

\* Variant of AllDead that uses any() in place of all().
AnyDead(es) == \E i \in 1..Len(es) : ~is_alive(es[i])

\* all(not e.is_alive() for e in self.enemies)
AllDead(es) == \A i \in 1..Len(es) : ~is_alive(es[i])

\* Game.play, second half of the loop body and the loop exit: count the turn
\* (codex), run the enemy phase, test for victory (break), test the loop
\* condition, and after the loop print the defeat message when hp <= 0.
EnemyPhase ==
    /\ pc = "enemy"
    /\ turn' = IF rev = "codex" THEN turn + 1 ELSE turn
    /\ \E rolls \in [1..Len(enemies) -> Rolls(rev)] :
          /\ \A i \in 1..Len(enemies) : CanPick(rooms, enemies[i], rolls[i].pick)
          /\ LET st0 == [player |-> player, enemies |-> enemies,
                         out |-> << >>, acted |-> << >>]
                 st  == IF PhaseRuns(rev, turn')
                        THEN _enemy_actions(rev, rooms, st0, 1, rolls)
                        ELSE st0
             IN  /\ player' = st.player
                 /\ enemies' = st.enemies
                 /\ acted' = st.acted
                 /\ IF AllDead(st.enemies)
                    THEN /\ out' = AfterLoop(st.player, Append(st.out, "Victory!"))
                         /\ pc' = "done"
                    ELSE IF LoopCondition(running, st.player)
                    THEN /\ out' = st.out
                         /\ pc' = "await"
                    ELSE /\ out' = AfterLoop(st.player, st.out)
                         /\ pc' = "done"
    /\ UNCHANGED <<rev, rooms, running, cmd, target, seen>>

Next ==
    \/ ReadName
    \/ ReadRole
    \/ ReadCommand
    \/ EnemyPhase

Spec == Init /\ [][Next]_vars

TypeOK ==
    /\ rev \in Revisions
    /\ pc \in {"name", "role", "await", "enemy", "done", "crashed"}
    /\ turn \in 0..MaxTurn
    /\ running \in BOOLEAN
    /\ target \in 0..Len(enemies)
    /\ seen \in 0..MaxSeen
    /\ player.room \in RoomNames
    /\ \A i \in 1..Len(enemies) : enemies[i].room \in RoomNames

(***************************************************************************)
(* Properties.  A step taken from pc = "await" resolves the command cmd';  *)
(* a step taken from pc = "enemy" is the rest of that turn.                *)
(***************************************************************************)

\* Enemy i is alive and in the player's room, in the current state.
LivingHere(i) == enemies[i].hp > 0 /\ enemies[i].room = player.room

\* C1: for every room and every direction d that is a key of the room's
\* neighbour mapping, "go d" issued in that room puts the player in exactly
\* the room the mapping gives for d, confirms the move, and the player is
\* still in that room when the turn is over.
C1_GoValidDirection ==
    [][ /\ \A d \in DOMAIN rooms[player.room] :
              (pc = "await" /\ cmd' = <<"go", d>>)
                 => /\ player'.room = rooms[player.room][d]
                    /\ out' = <<"You move">>
        /\ pc = "enemy" => player'.room = player.room ]_vars

C1_Witness ==
    /\ pc = "await"
    /\ cmd = <<"go", "west">>
    /\ out = << >>
    /\ player.room = "Library"

\* C2: "go <direction>" with a direction that is not a key of the current
\* room's neighbour mapping leaves the player's room unchanged and prints the
\* failure message.
C2_GoInvalidDirection ==
    [][ ( /\ pc = "await"
          /\ Len(cmd') > 1
          /\ cmd'[1] = "go"
          /\ ~(Len(cmd') = 2 /\ cmd'[2] \in DOMAIN rooms[player.room]) )
           => /\ player'.room = player.room
              /\ out' = <<"You can't go that way.">> ]_vars

C2_Witness ==
    /\ pc = "enemy"
    /\ cmd = <<"go", "up">>
    /\ player.room = "Entrance"
    /\ out = <<"You can't go that way.">>

\* C3: "attack" with no living enemy in the player's room changes no enemy's
\* hit points and not the player's, and prints "No enemy to attack.",
\* whatever dead enemies are in the room and whatever enemies are elsewhere.
C3_AttackNothing ==
    [][ ( /\ pc = "await"
          /\ cmd' = <<"attack">>
          /\ \A i \in 1..Len(enemies) : ~LivingHere(i) )
           => /\ Len(enemies') = Len(enemies)
              /\ \A i \in 1..Len(enemies) : enemies'[i].hp = enemies[i].hp
              /\ player'.hp = player.hp
              /\ out' = <<"No enemy to attack.">> ]_vars

C3_Witness ==
    /\ pc = "enemy"
    /\ cmd = <<"attack">>
    /\ out = <<"No enemy to attack.">>
    /\ \E i \in 1..Len(enemies) : enemies[i].hp <= 0 /\ enemies[i].room = player.room
    /\ \E i \in 1..Len(enemies) : enemies[i].hp > 0 /\ enemies[i].room # player.room

\* C4: "attack" with a living enemy in the player's room lowers the hit
\* points of the first such enemy in list order by exactly the player's attack
\* value and leaves every other enemy's hit points as they were.
C4_AttackFirstLiving ==
    [][ \A i \in 1..Len(enemies) :
          ( /\ pc = "await"
            /\ cmd' = <<"attack">>
            /\ LivingHere(i)
            /\ \A j \in 1..(i - 1) : ~LivingHere(j) )
             => /\ Len(enemies') = Len(enemies)
                /\ enemies'[i].hp = enemies[i].hp - player.atk
                /\ \A j \in 1..Len(enemies) : j # i => enemies'[j].hp = enemies[j].hp
                /\ target' = i ]_vars

C4_Witness ==
    /\ pc = "enemy"
    /\ cmd = <<"attack">>
    /\ target = 1
    /\ enemies[1].name = "Goblin"
    /\ enemies[2].hp > 0
    /\ enemies[2].room = player.room

\* C5: once an enemy's hit points are <= 0 it stays in the enemy list with
\* its hit points and room frozen, is never the target of an attack, is only
\* ever skipped by the enemy phase, and a phase in which no living enemy
\* shares the player's room takes nothing from the player's hit points.
C5_DeadEnemyInert ==
    [][ /\ \A i \in 1..Len(enemies) :
              enemies[i].hp <= 0
                 => /\ Len(enemies') = Len(enemies)
                    /\ enemies'[i] = enemies[i]
                    /\ pc = "await" => target' # i
                    /\ pc = "enemy" =>
                          \A k \in 1..Len(acted') :
                              acted'[k][1] = i => acted'[k][2] = "skip"
        /\ (pc = "enemy" /\ \A i \in 1..Len(enemies) : ~LivingHere(i))
              => player'.hp = player.hp ]_vars

C5_Witness ==
    /\ pc = "await"
    /\ \E i \in 1..Len(enemies) :
          /\ enemies[i].hp <= 0
          /\ enemies[i].room = player.room
          /\ <<i, "skip">> \in Range(acted)
    /\ \E j \in 1..Len(enemies) : enemies[j].hp > 0

VictoryDeclared == "Victory!" \in Range(out)

DefeatDeclared == "You have been defeated..." \in Range(out)

\* C6: Victory is declared exactly when an enemy phase of a turn whose
\* command was not quit ends with every enemy at hp <= 0: never by the command
\* itself, never while some enemy has hp > 0, and always when all are at
\* hp <= 0; the session then ends.
C6_VictoryIffAllDead ==
    [][ /\ pc = "await" => ~VictoryDeclared'
        /\ pc = "enemy" =>
              /\ VictoryDeclared' <=> \A i \in 1..Len(enemies') : enemies'[i].hp <= 0
              /\ VictoryDeclared' => (pc' = "done" /\ running') ]_vars

C6_Witness ==
    /\ pc = "done"
    /\ VictoryDeclared
    /\ cmd = <<"attack">>
    /\ \A i \in 1..Len(enemies) : enemies[i].hp <= 0

\* C7: Defeat is declared exactly when an enemy phase leaves the player at
\* hp <= 0: never by a command (which cannot change the player's hp), never
\* while hp > 0, and always when hp <= 0; the session is then over and no
\* further command is read.
C7_DefeatIffHpGone ==
    [][ /\ pc = "await" => (~DefeatDeclared' /\ player'.hp = player.hp)
        /\ pc = "enemy" =>
              /\ DefeatDeclared' <=> player'.hp <= 0
              /\ player'.hp <= 0 => pc' = "done" ]_vars

C7_Witness ==
    /\ pc = "done"
    /\ DefeatDeclared
    /\ player.hp = 0

\* C8: "quit" and "exit" both end the session at once: no enemy phase
\* follows, the player and the enemies are as before, and nothing (so neither
\* the victory nor the defeat message) is printed.
C8_QuitOrExitEnds ==
    [][ (pc = "await" /\ cmd' \in {<<"quit">>, <<"exit">>})
           => /\ pc' = "done"
              /\ ~running'
              /\ player' = player
              /\ enemies' = enemies
              /\ out' = << >> ]_vars

\* The step that resolves c is a rejection: a "go" whose direction is not an
\* exit of the room, an "attack" with no living enemy in the room, or a line
\* the dispatcher of the revision does not know.
Rejected(c) ==
    \/ /\ Len(c) > 1
       /\ c[1] = "go"
       /\ ~(Len(c) = 2 /\ c[2] \in DOMAIN rooms[player.room])
    \/ /\ c = <<"attack">>
       /\ \A i \in 1..Len(enemies) : ~LivingHere(i)
    \/ c \in {<<"go">>, <<"dance">>}
    \/ rev = "HEAD" /\ c \in {<<"stats">>, <<"exit">>}

RejectionMessages ==
    { <<"You can't go that way.">>, <<"No enemy to attack.">>, <<"Unknown command.">> }

\* C9 as stated: after a rejected command the player's hp and room and every
\* enemy's hp and room are, when the next command is awaited, what they were
\* before the command was entered, and control is back at Awaiting Command.
C9_RejectionKeepsStateUntilNextCommand ==
    [][ /\ (pc = "await" /\ cmd' # EOF /\ Rejected(cmd'))
              => (player' = player /\ enemies' = enemies)
        /\ (pc = "enemy" /\ out \in RejectionMessages)
              => (player' = player /\ enemies' = enemies /\ pc' = "await") ]_vars

\* C9 amended: a rejected command prints its message and itself alters
\* neither the player nor any enemy; the session goes on, and control passes
\* to the rest of the turn (the enemy phase), not straight back to the prompt.
C9_RejectionAltersNothing ==
    [][ (pc = "await" /\ cmd' # EOF /\ Rejected(cmd'))
           => /\ player' = player
              /\ enemies' = enemies
              /\ out' \in RejectionMessages
              /\ running'
              /\ pc' = "enemy" ]_vars

C9_Witness ==
    /\ pc = "enemy"
    /\ cmd = <<"dance">>
    /\ out = <<"Unknown command.">>
    /\ player.room = "Hall"
    /\ LivingHere(1)

\* The sum of the attack values of the enemies whose indices are in S.
RECURSIVE SumAtk(_)
SumAtk(S) ==
    IF S = {} THEN 0
    ELSE LET i == CHOOSE x \in S : TRUE IN enemies[i].atk + SumAtk(S \ {i})

\* The enemy phase that ends with acted' visited every enemy once, in list
\* order: a dead one is skipped, a living one in the player's room hits, and
\* any other living one applies the movement policy of the revision (HEAD:
\* move; codex: move or stay put on the coin).
FullPhase ==
    /\ Len(acted') = Len(enemies)
    /\ \A i \in 1..Len(enemies) :
          /\ acted'[i][1] = i
          /\ acted'[i][2] = "skip" <=> enemies[i].hp <= 0
          /\ acted'[i][2] = "hit" <=> LivingHere(i)
          /\ acted'[i][2] \in (IF rev = "HEAD" THEN {"skip", "hit", "move"}
                               ELSE {"skip", "hit", "move", "idle"})
    /\ player'.hp = player.hp - SumAtk({i \in 1..Len(enemies) : LivingHere(i)})

\* C10 as stated: every command other than quit/exit is followed, on every
\* turn including the first, by a full enemy phase.
C10_PhaseAfterEveryCommand ==
    [][ /\ (pc = "await" /\ cmd' \notin {<<"quit">>, <<"exit">>, EOF}) => pc' = "enemy"
        /\ pc = "enemy" => FullPhase ]_vars

\* C10 amended: every command other than quit/exit is followed by the rest
\* of the turn; that is a full enemy phase except on the first turn of the
\* codex revision (turn counter 0 -> 1), where no enemy is visited and neither
\* the player nor any enemy changes.
C10_PhaseAfterEveryCommandButFirst ==
    [][ /\ (pc = "await" /\ cmd' \notin {<<"quit">>, <<"exit">>, EOF}) => pc' = "enemy"
        /\ (pc = "enemy" /\ (rev = "HEAD" \/ turn >= 1)) => FullPhase
        /\ (pc = "enemy" /\ rev = "codex" /\ turn = 0)
              => (acted' = << >> /\ player' = player /\ enemies' = enemies) ]_vars

C10_Witness ==
    /\ pc = "await"
    /\ rev = "codex"
    /\ turn = 2
    /\ cmd = <<"go", "up">>
    /\ acted = << <<1, "hit">>, <<2, "move">> >>

\* C11: end of input on the name prompt, the class prompt or the command
\* prompt is an implicit quit: the session ends the way quit ends it, never in
\* the crashed state.
C11_EofIsImplicitQuit ==
    [][ (pc \in {"name", "role", "await"} /\ cmd' = EOF)
           => (pc' = "done" /\ ~running') ]_vars

\* The enemy phase runs in the step taken from the current state.
PhaseIsRun == pc = "enemy" /\ (rev = "HEAD" \/ turn >= 1)

\* Enemy i is alive and not in the player's room, in the current state.
LivingElsewhere(i) == enemies[i].hp > 0 /\ enemies[i].room # player.room

\* C12 as stated: in an enemy phase a living enemy that does not share the
\* player's room ends the phase in a neighbour of its room when the room has
\* neighbours, and in its room when it has none.
C12_EnemyRelocates ==
    [][ \A i \in 1..Len(enemies) :
          (PhaseIsRun /\ LivingElsewhere(i))
             => IF DOMAIN rooms[enemies[i].room] # {}
                THEN enemies'[i].room \in Range(rooms[enemies[i].room])
                ELSE enemies'[i].room = enemies[i].room ]_vars

\* C12 amended: such an enemy ends the phase in a neighbour of its room or,
\* in the codex revision only (the coin), in its room; on HEAD it always
\* relocates when its room has neighbours.  No command moves an enemy.
C12_EnemyRelocatesOrIdles ==
    [][ /\ \A i \in 1..Len(enemies) :
              (PhaseIsRun /\ LivingElsewhere(i))
                 => /\ enemies'[i].room \in
                          Range(rooms[enemies[i].room]) \cup
                          (IF rev = "codex" \/ DOMAIN rooms[enemies[i].room] = {}
                           THEN {enemies[i].room} ELSE {})
                    /\ enemies'[i].hp = enemies[i].hp
        /\ pc = "await" =>
              \A i \in 1..Len(enemies) : enemies'[i].room = enemies[i].room ]_vars

C12_Witness ==
    /\ pc = "await"
    /\ rev = "codex"
    /\ acted = << <<1, "move">>, <<2, "idle">> >>
    /\ enemies[1].room = "Library"
    /\ enemies[2].room = "Armory"

\* The warrior stands in the Hall with the Goblin, which has h hit points.
WarriorMeetsGoblin(h) ==
    /\ player.role = "warrior"
    /\ player.room = "Hall"
    /\ enemies[1].name = "Goblin"
    /\ enemies[1].room = "Hall"
    /\ enemies[1].hp = h

\* C13: a warrior starts with 15 hp and 3 atk at Entrance.  With "go north",
\* "attack", "attack" as the first three commands of the session: the first
\* puts the player in the Hall with the living Goblin (5 hp), which is still
\* there when the second command is read; the first attack takes the Goblin
\* from 5 to 2 and the second to -1, reported as defeated; and whatever the
\* enemies do in between, every one of the three commands is read with the
\* player alive.
C13_WarriorScenario ==
    [][ /\ (pc = "role" /\ cmd' = <<"warrior">>)
              => /\ pc' = "await"
                 /\ player'.hp = 15
                 /\ player'.atk = 3
                 /\ player'.room = "Entrance"
        /\ (pc = "await" /\ player.role = "warrior" /\ seen = 0
               /\ cmd' = <<"go", "north">>)
              => /\ pc' = "enemy"
                 /\ WarriorMeetsGoblin(5)'
        /\ (pc = "enemy" /\ seen = 1 /\ cmd = <<"go", "north">>
               /\ WarriorMeetsGoblin(5))
              => /\ pc' = "await"
                 /\ player'.hp > 0
                 /\ WarriorMeetsGoblin(5)'
        /\ (pc = "await" /\ seen = 1 /\ cmd = <<"go", "north">>
               /\ WarriorMeetsGoblin(5) /\ cmd' = <<"attack">>)
              => /\ pc' = "enemy"
                 /\ WarriorMeetsGoblin(2)'
                 /\ target' = 1
                 /\ out' = <<"You hit">>
        /\ (pc = "enemy" /\ seen = 2 /\ cmd = <<"attack">>
               /\ WarriorMeetsGoblin(2))
              => /\ pc' = "await"
                 /\ player'.hp > 0
                 /\ WarriorMeetsGoblin(2)'
        /\ (pc = "await" /\ seen = 2 /\ cmd = <<"attack">>
               /\ WarriorMeetsGoblin(2) /\ cmd' = <<"attack">>)
              => /\ WarriorMeetsGoblin(-1)'
                 /\ target' = 1
                 /\ out' = <<"You hit", "is defeated!">> ]_vars

\* The session after exactly three commands: the Goblin can only have been
\* hit twice in the Hall by then if they were go north, attack, attack.
C13_Witness ==
    /\ pc = "enemy"
    /\ seen = 3
    /\ rev = "HEAD"
    /\ player.hp = 9
    /\ cmd = <<"attack">>
    /\ WarriorMeetsGoblin(-1)
    /\ out = <<"You hit", "is defeated!">>

Opposite(d) ==
    CASE d = "north" -> "south"
      [] d = "south" -> "north"
      [] d = "east"  -> "west"
      [] d = "west"  -> "east"

\* Every edge a --d--> b of the map rs has the reverse edge b --Opposite(d)--> a.
Symmetric(rs) ==
    \A a \in DOMAIN rs : \A d \in DOMAIN rs[a] :
        /\ d \in DIRECTIONS
        /\ rs[a][d] \in DOMAIN rs
        /\ Opposite(d) \in DOMAIN rs[rs[a][d]]
        /\ rs[rs[a][d]][Opposite(d)] = a

\* The player, once created, and every enemy are in one of the four rooms.
Located ==
    /\ pc \in {"await", "enemy", "done"} => player.room \in RoomNames
    /\ \A i \in 1..Len(enemies) : enemies[i].room \in RoomNames

\* C14: the room graph is symmetric (north/south, east/west) and no step of
\* the session (creation, player move, attack, enemy phase) adds, removes or
\* redirects an edge; the player and every enemy are always in one of
\* Entrance, Hall, Armory, Library.
C14_MapSymmetricAndFixed ==
    [][ /\ DOMAIN rooms = {"Entrance", "Hall", "Armory", "Library"}
        /\ Symmetric(rooms)
        /\ rooms' = rooms
        /\ Located
        /\ Located' ]_vars

C14_Witness ==
    /\ pc = "await"
    /\ player.room = "Armory"
    /\ enemies[1].room = "Library"
    /\ enemies[2].room = "Entrance"
    /\ enemies[2].hp < 5

\* C15: the step that ends a turn goes to Victory when every enemy is then
\* dead, otherwise to Defeat when the player's hp is then <= 0, otherwise back
\* to the prompt with neither message; and once the session is over (Victory,
\* Defeat or quit) nothing changes any more: no command is read and the
\* player, the enemies and the turn counter stay as they are.
C15_TurnOutcomeAndTerminal ==
    [][ /\ pc = "enemy" =>
              IF \A i \in 1..Len(enemies') : enemies'[i].hp <= 0
              THEN pc' = "done" /\ VictoryDeclared'
              ELSE IF player'.hp <= 0
              THEN pc' = "done" /\ DefeatDeclared' /\ ~VictoryDeclared'
              ELSE pc' = "await" /\ ~DefeatDeclared' /\ ~VictoryDeclared'
        /\ (pc = "await" /\ cmd' \in {<<"quit">>} \cup
                                    (IF rev = "codex" THEN {<<"exit">>} ELSE {}))
              => pc' = "done"
        /\ pc = "done" => UNCHANGED vars ]_vars

C15_Witness ==
    /\ pc = "done"
    /\ DefeatDeclared
    /\ ~VictoryDeclared
    /\ player.hp < 0
    /\ \E i \in 1..Len(enemies) : enemies[i].hp <= 0

\* C16 as stated: in the first turn of a session whose command is not quit
\* no enemy moves and no enemy damages the player.
C16_EnemiesWaitOnFirstMove ==
    [][ (pc = "enemy" /\ seen = 1)
           => (acted' = << >> /\ enemies' = enemies /\ player' = player) ]_vars

\* C16 amended: that holds in the codex revision, whose turn counter is 1 at
\* the end of that turn and whose enemies are visited in every later turn; the
\* HEAD revision has no turn counter and visits the enemies in every turn, the
\* first included.
C16_EnemiesWaitOnFirstMoveInCodex ==
    [][ /\ (pc = "enemy" /\ seen = 1 /\ rev = "codex")
              => /\ turn' = 1
                 /\ acted' = << >>
                 /\ enemies' = enemies
                 /\ player' = player
        /\ (pc = "enemy" /\ seen > 1 /\ rev = "codex")
              => (turn' > 1 /\ Len(acted') = Len(enemies))
        /\ (pc = "enemy" /\ rev = "HEAD")
              => (turn' = 0 /\ Len(acted') = Len(enemies)) ]_vars

C16_Witness ==
    /\ pc = "await"
    /\ rev = "codex"
    /\ turn = 1
    /\ seen = 1
    /\ cmd = <<"go", "north">>
    /\ LivingHere(1)
    /\ player.hp = 10
    /\ acted = << >>

\* C17: an enemy phase takes from the player's hp exactly the sum of the
\* attack values of the living enemies that were in the player's room when
\* the phase started, so an enemy that moves into the room during the phase
\* adds nothing; an enemy that changes room did not hit, an enemy that hit did
\* not change room, and the phase prints one hit message per enemy that hit.
C17_PhaseDamage ==
    [][ PhaseIsRun =>
          /\ player'.hp =
                player.hp - SumAtk({i \in 1..Len(enemies) : LivingHere(i)})
          /\ \A i \in 1..Len(enemies) :
                /\ enemies'[i].room # enemies[i].room
                      => (~LivingHere(i) /\ acted'[i] = <<i, "move">>)
                /\ acted'[i] = <<i, "hit">>
                      => (LivingHere(i) /\ enemies'[i] = enemies[i])
          /\ Cardinality({k \in 1..Len(out') : out'[k] = "hits you"})
                = Cardinality({i \in 1..Len(enemies) : LivingHere(i)}) ]_vars

C17_Witness ==
    /\ pc = "await"
    /\ rev = "HEAD"
    /\ seen = 1
    /\ cmd = <<"go", "north">>
    /\ acted = << <<1, "hit">>, <<2, "move">> >>
    /\ enemies[2].room = player.room
    /\ player.hp = 13
    /\ out = <<"hits you">>

\* C18: once the enemies exist, in no state are all of them dead while the
\* player's hp is <= 0; no session prints both the victory and the defeat
\* message; and the player's hp is > 0 whenever Victory is declared.
C18_VictoryExcludesDefeat ==
    enemies # << >> =>
       /\ ~( (\A i \in 1..Len(enemies) : enemies[i].hp <= 0) /\ player.hp <= 0 )
       /\ ~(VictoryDeclared /\ DefeatDeclared)
       /\ VictoryDeclared => player.hp > 0

C18_Witness ==
    /\ pc = "done"
    /\ VictoryDeclared
    /\ player.hp = 1
    /\ \A i \in 1..Len(enemies) : enemies[i].room = player.room

\* C19: from the creation of the player on, no step raises the player's hp
\* or an enemy's hp, or changes the player's attack value or role or an
\* enemy's attack value; the player's hp is never below -3 and no enemy's hp
\* is ever below -3.
C19_HpMonotoneAndBounded ==
    [][ (pc = "await" \/ pc = "enemy" \/ pc = "done") =>
          /\ player'.hp <= player.hp
          /\ player'.atk = player.atk
          /\ player'.role = player.role
          /\ player.hp >= -3
          /\ player'.hp >= -3
          /\ Len(enemies') = Len(enemies)
          /\ \A i \in 1..Len(enemies) :
                /\ enemies'[i].hp <= enemies[i].hp
                /\ enemies'[i].atk = enemies[i].atk
                /\ enemies[i].hp >= -3
                /\ enemies'[i].hp >= -3 ]_vars

C19_Witness ==
    /\ pc = "done"
    /\ player.hp = -3
    /\ DefeatDeclared
    /\ \E i \in 1..Len(enemies) : enemies[i].hp = 2

(***************************************************************************)
(* A winning line of play.  SpecWin keeps, of every step of Spec, only     *)
(* the inputs and the wander outcomes below, so each of its behaviours is  *)
(* a behaviour of Spec.  The player camps in one room (the Hall in the     *)
(* codex revision, where the turns are bounded by MaxTurn; the Entrance on *)
(* HEAD, where the Skeleton is otherwise forced into the Hall while the    *)
(* Goblin lives), attacks whenever a living enemy is there and otherwise   *)
(* waits; the first living enemy comes to the player and any other living  *)
(* enemy keeps out of the player's room.                                   *)
(***************************************************************************)
Camp == IF rev = "codex" THEN "Hall" ELSE "Entrance"

Waits == { <<"look">>, <<"help">>, <<"stats">>, <<"dance">> }

\* The index of the first living enemy, 0 when there is none.
FirstLiving ==
    IF \E i \in 1..Len(enemies) : enemies[i].hp > 0
    THEN CHOOSE i \in 1..Len(enemies) :
            enemies[i].hp > 0 /\ \A j \in 1..(i - 1) : enemies[j].hp <= 0
    ELSE 0

WinName == ReadName /\ cmd' = <<"hero">>

WinRole == ReadRole /\ cmd' \in { <<"warrior">>, <<"wizard">>, <<"rogue">> }

WinCommand ==
    /\ ReadCommand
    /\ IF \E i \in 1..Len(enemies) : LivingHere(i) THEN cmd' = <<"attack">>
       ELSE IF player.room # Camp THEN cmd' = <<"go", "north">>
       ELSE cmd' \in Waits

WinPhase ==
    /\ EnemyPhase
    /\ \A i \in 1..Len(enemies) :
          (enemies[i].hp > 0 /\ i # FirstLiving) => enemies'[i].room # player.room
    /\ (PhaseIsRun /\ FirstLiving # 0 /\ ~LivingHere(FirstLiving))
          => IF player.room \in Range(rooms[enemies[FirstLiving].room])
             THEN enemies'[FirstLiving].room = player.room
             ELSE enemies'[FirstLiving].room # enemies[FirstLiving].room

NextWin == WinName \/ WinRole \/ WinCommand \/ WinPhase

\* The program keeps running while it has a step to take.
SpecWin == Init /\ [][NextWin]_vars /\ WF_vars(NextWin)

\* C20: for each of the three roles there are commands and wander outcomes
\* that lead from the start of the session to Victory: every session of the
\* winning line of play, whatever the role and the revision, ends in Victory.
C20_Winnable ==
    /\ <>(pc = "done" /\ VictoryDeclared)
    /\ \A r \in {"warrior", "wizard", "rogue"} :
          (pc = "await" /\ seen = 0 /\ player.role = r)
             ~> (pc = "done" /\ VictoryDeclared /\ player.role = r)

C20_Witness ==
    /\ pc = "done"
    /\ VictoryDeclared
    /\ rev = "HEAD"
    /\ player.role = "wizard"
    /\ player.hp = stats["wizard"][1] - 4

====
